---- MODULE Spec2Model ----
(***************************************************************************)
(* faust/event.py: typed event records.                                    *)
(*                                                                         *)
(* The state is the class table built by Event.__init_subclass__ (one      *)
(* entry per declared Event subclass), the most recent call made on that   *)
(* table and the value the call returned or the exception it raised.       *)
(*                                                                         *)
(* Python values are modelled as follows.                                  *)
(*   dict        a sequence of <<key, value>> pairs with distinct keys, in  *)
(*               insertion order (dicts and **kwargs keep insertion order)  *)
(*   frozenset   a set                                                      *)
(*   exception   [kind |-> "error", exc, msg, cls, names]                   *)
(*   instance    [kind |-> "record", cls, dict]   (dict is self.__dict__)   *)
(*   None        [kind |-> "none"]                                          *)
(*   other value [type, repr]: its type and its repr() text                 *)
(***************************************************************************)
EXTENDS Integers, Sequences, FiniteSets, TLC

\* ---------------------------------------------------------------- bounds
\* Number of Event subclasses a behaviour declares through DeclareClass.
MaxClasses == 2
\* Number of annotated fields in one class body.
MaxDecl == 2
\* Number of keyword arguments, or of payload entries, of one call.
MaxKw == 2

\* ------------------------------------------------------------- universes
\* Names given to the declared classes, in declaration order.
ClassNames == <<"Base", "Derived", "Leaf">>
\* Field names a class body may annotate.
FieldNames == {"a", "b", "c"}
\* Annotation values.
Types == {"int", "str"}
\* Names a caller may pass: the fields of the exercised program and one
\* unknown name.
KwNames == {"a", "b", "x"}
\* Field values.
Values == {[type |-> "int", repr |-> "100"], [type |-> "str", repr |-> "'USD'"]}
\* Message keys.
Keys == {"k1", "k2"}
\* Values of the serializer= class keyword; "None" is the default.
Serializers == {"None", "json"}

\* The root class is class 0 of the table; object is class -1.
EventId == 0
ObjectId == -1

None == [kind |-> "none"]

VARIABLES
    annotationsInherited,  \* how the interpreter resolves cls.__annotations__
    classes,               \* the declared Event subclasses, in declaration order
    call,                  \* the most recent call
    ret,                   \* what that call returned or raised
    stdout                 \* the line that call printed

vars == <<annotationsInherited, classes, call, ret, stdout>>

\* ------------------------------------------------------------ dict helpers
DictKeys(d) == {d[i][1] : i \in 1..Len(d)}

HasKey(d, k) == \E i \in 1..Len(d) : d[i][1] = k

DictGet(d, k) == d[CHOOSE i \in 1..Len(d) : d[i][1] = k][2]

KeyList(d) == [i \in 1..Len(d) |-> d[i][1]]

\* dict[k] = v: an existing key keeps its position, a new key goes last.
DictSet(d, k, v) ==
    IF HasKey(d, k)
    THEN [i \in 1..Len(d) |-> IF d[i][1] = k THEN <<k, v>> ELSE d[i]]
    ELSE Append(d, <<k, v>>)

\* dict.update(items), items in their own order.
RECURSIVE DictUpdate(_, _)
DictUpdate(d, items) ==
    IF items = <<>> THEN d
    ELSE DictUpdate(DictSet(d, Head(items)[1], Head(items)[2]), Tail(items))

\* The mapping a dict denotes, order forgotten.
AsMapping(d) == [k \in DictKeys(d) |-> DictGet(d, k)]

\* Sequences over S of length at most n without repeated elements.
RECURSIVE DistinctSeqs(_, _)
DistinctSeqs(S, n) ==
    IF n = 0 THEN {<<>>}
    ELSE LET shorter == DistinctSeqs(S, n - 1)
         IN  shorter \cup
             {Append(s, e) : <<s, e>> \in
                 {p \in shorter \X S :
                     Len(p[1]) = n - 1 /\ \A i \in 1..Len(p[1]) : p[1][i] # p[2]}}

\* ----------------------------------------------------------------- sorted
\* Python orders str by code point: "_" (95) sorts before the lower-case letters.
NameRank ==
    [n \in {"_fields", "a", "b", "c", "req", "x"} |->
        CASE n = "_fields" -> 1
          [] n = "a" -> 2
          [] n = "b" -> 3
          [] n = "c" -> 4
          [] n = "req" -> 5
          [] n = "x" -> 6]

RECURSIVE sorted(_)
sorted(S) ==
    IF S = {} THEN <<>>
    ELSE LET least == CHOOSE n \in S : \A m \in S : NameRank[n] <= NameRank[m]
         IN  <<least>> \o sorted(S \ {least})

\* ------------------------------------------------------------ class table
\* class Event: req: Request = None; _fields: Mapping[str, type];
\* _fieldset = FrozenSet[str] is an assignment, not an annotation.
EventAnnotations == <<<<"req", "Request">>, <<"_fields", "Mapping">>>>

\* The class bodies: what a class statement itself declares.
OwnAnnotations(cs, c) ==
    IF c = EventId THEN EventAnnotations
    ELSE IF c = ObjectId THEN <<>>
    ELSE cs[c].ann

Parent(cs, c) == IF c = EventId THEN ObjectId ELSE cs[c].base

\* cls.__mro__ under single inheritance: the class, then its ancestors up to object.
RECURSIVE Mro(_, _)
Mro(cs, c) == IF c = ObjectId THEN <<ObjectId>> ELSE <<c>> \o Mro(cs, Parent(cs, c))

Reversed(s) == [i \in 1..Len(s) |-> s[Len(s) + 1 - i]]

\* The outcome of an attribute lookup: the value, or AttributeError raised.
Found(v) == [raised |-> FALSE, value |-> v]
AttributeError == [raised |-> TRUE, value |-> <<>>]

\* cls.__annotations__.  A class body without annotations has no __annotations__
\* entry of its own.  Where the interpreter resolves the attribute like any
\* other class attribute (Python up to 3.9) the lookup then continues along the
\* MRO and returns the nearest ancestor's annotations, or raises AttributeError
\* when no ancestor has any; where it does not (Python 3.10 and later) the
\* lookup returns an empty dict.
RECURSIVE LookupAnnotations(_, _)
LookupAnnotations(cs, mro) ==
    IF mro = <<>> THEN AttributeError
    ELSE IF OwnAnnotations(cs, Head(mro)) # <<>>
         THEN Found(OwnAnnotations(cs, Head(mro)))
         ELSE LookupAnnotations(cs, Tail(mro))

Annotations(inherited, cs, c) ==
    IF OwnAnnotations(cs, c) # <<>> THEN Found(OwnAnnotations(cs, c))
    ELSE IF inherited THEN LookupAnnotations(cs, Mro(cs, c))
    ELSE Found(<<>>)

\* The loop of __init_subclass__ over reversed(cls.__mro__): st is
\* <<fields, wanted_baseclass>>; an AttributeError is caught and passed over.
RECURSIVE CollectFields(_, _, _, _)
CollectFields(inherited, cs, rmro, st) ==
    IF rmro = <<>> THEN st[1]
    ELSE LET c == Head(rmro)
             ann == Annotations(inherited, cs, c)
         IN  IF st[2]
             THEN CollectFields(inherited, cs, Tail(rmro),
                      <<IF ann.raised THEN st[1] ELSE DictUpdate(st[1], ann.value),
                        TRUE>>)
             ELSE CollectFields(inherited, cs, Tail(rmro), <<st[1], c = EventId>>)

\* Event.__init_subclass__(cls, serializer): the class table with the new class
\* appended, its serializer, _fields and _fieldset set.
__init_subclass__(inherited, cs, name, base, ann, serializer) ==
    LET id == Len(cs) + 1
        declared == Append(cs, [name |-> name, base |-> base, ann |-> ann,
                                serializer |-> serializer,
                                _fields |-> <<>>, _fieldset |-> {}])
        fields == CollectFields(inherited, declared, Reversed(Mro(declared, id)),
                                <<<<>>, FALSE>>)
    IN  [declared EXCEPT ![id]._fields = fields, ![id]._fieldset = DictKeys(fields)]

\* ------------------------------------------------------------- exceptions
TypeError(name, msg, names) ==
    [kind |-> "error", exc |-> "TypeError", msg |-> msg, cls |-> name, names |-> names]

KeyError(key) ==
    [kind |-> "error", exc |-> "KeyError", msg |-> "", cls |-> "", names |-> <<key>>]

SerializationError(why) ==
    [kind |-> "error", exc |-> "SerializationError", msg |-> why, cls |-> "",
     names |-> <<>>]

\* ------------------------------------------------------- utils.serialization
\* The codec registry: the serializer ids that have a codec.
Codecs == {"json"}

\* dumps(serializer, obj): the payload of a mapping.  The codec writes the
\* entries in its own wire order, here ascending by key, and rejects a value
\* it cannot represent.
codec_dumps(serializer, obj) ==
    IF serializer \notin Codecs THEN SerializationError("UnknownSerializer")
    ELSE IF \E i \in 1..Len(obj) : obj[i][2].type \notin {"int", "str"}
    THEN SerializationError("EncodeFailed")
    ELSE [kind |-> "payload", codec |-> serializer,
          body |-> LET keys == sorted(DictKeys(obj))
                   IN  [i \in 1..Len(keys) |-> <<keys[i], DictGet(obj, keys[i])>>]]

\* loads(serializer, s): the mapping of a payload, its entries in wire order.
codec_loads(serializer, s) ==
    IF serializer \notin Codecs THEN SerializationError("UnknownSerializer")
    ELSE IF s.codec # serializer THEN SerializationError("DecodeFailed")
    ELSE [kind |-> "dict", items |-> s.body]

\* ------------------------------------------------------------------ Event
\* __init__ without the check for extraneous names.
__init___ExtrasAccepted(cs, c, fields) ==
    LET missing == cs[c]._fieldset \ DictKeys(fields)
    IN  IF missing # {}
        THEN TypeError(cs[c].name, "missing required arguments", sorted(missing))
        ELSE [kind |-> "record", cls |-> c, dict |-> DictUpdate(<<>>, fields)]

\* __init__ reporting the names in the order the caller gave them, unsorted.
__init___Unsorted(cs, c, fields) ==
    LET missing == cs[c]._fieldset \ DictKeys(fields)
        extraneous == DictKeys(fields) \ cs[c]._fieldset
    IN  IF missing # {}
        THEN TypeError(cs[c].name, "missing required arguments", sorted(missing))
        ELSE IF extraneous # {}
        THEN TypeError(cs[c].name, "got unexpected arguments",
                       SelectSeq(KeyList(fields), LAMBDA k : k \in extraneous))
        ELSE [kind |-> "record", cls |-> c, dict |-> DictUpdate(<<>>, fields)]

\* Event.__init__(self, **fields) on a new instance of class c.
__init__(cs, c, fields) ==
    LET fieldset == DictKeys(fields)
        missing == cs[c]._fieldset \ fieldset
        extraneous == fieldset \ cs[c]._fieldset
    IN  IF missing # {}
        THEN TypeError(cs[c].name, "missing required arguments", sorted(missing))
        ELSE IF extraneous # {}
        THEN TypeError(cs[c].name, "got unexpected arguments", sorted(extraneous))
        ELSE [kind |-> "record", cls |-> c, dict |-> DictUpdate(<<>>, fields)]

\* Event.loads(cls, s, **kwargs) == cls(**kwargs, **loads(cls.serializer, s)).
\* A key given twice in a call is a TypeError of the call itself.
loads(cs, c, s, kwargs) ==
    LET decoded == codec_loads(cs[c].serializer, s)
    IN  IF decoded.kind = "error" THEN decoded
        ELSE IF DictKeys(kwargs) \cap DictKeys(decoded.items) # {}
        THEN TypeError(cs[c].name, "got multiple values for keyword argument",
                       sorted(DictKeys(kwargs) \cap DictKeys(decoded.items)))
        ELSE __init__(cs, c, kwargs \o decoded.items)

Request(key, topic, partition, message) ==
    [type |-> "Request", repr |-> "Request", key |-> key, topic |-> topic,
     partition |-> partition, message |-> message]

\* Event.from_message(cls, key, topic, partition, message).
from_message(cs, c, key, topic, partition, message) ==
    LET request == Request(key, topic, partition, message)
    IN  loads(cs, c, message.value, <<<<"req", request>>>>)

\* _asitems pairing the i-th key of _fields with the i-th value of __dict__.
_asitems_ByPosition(cs, self) ==
    LET fields == cs[self.cls]._fields
    IN  [i \in 1..Len(fields) |-> <<fields[i][1], self.dict[i][2]>>]

\* Event._asitems(self): (key, self.__dict__[key]) for key in self._fields.
_asitems(cs, self) ==
    LET fields == cs[self.cls]._fields
    IN  [i \in 1..Len(fields) |-> <<fields[i][1], DictGet(self.dict, fields[i][1])>>]

\* Event._asdict(self) == dict(self._asitems()); a key of _fields that the
\* instance does not hold raises KeyError while the items are drawn.
_asdict(cs, self) ==
    LET absent == {k \in DictKeys(cs[self.cls]._fields) : ~HasKey(self.dict, k)}
    IN  IF absent # {}
        THEN KeyError(CHOOSE k \in absent :
                 \A i \in 1..Len(cs[self.cls]._fields) :
                     cs[self.cls]._fields[i][1] \in absent =>
                         \E j \in 1..i : cs[self.cls]._fields[j][1] = k)
        ELSE [kind |-> "dict", items |-> DictUpdate(<<>>, _asitems(cs, self))]

\* Event.dumps(self) == dumps(self.serializer, self._asdict()).
dumps(cs, self) ==
    LET d == _asdict(cs, self)
    IN  IF d.kind = "error" THEN d ELSE codec_dumps(cs[self.cls].serializer, d.items)

\* _kvrepr(d): 'k=repr(v)' for every item of d, in the order of d.
_kvrepr(d) == [i \in 1..Len(d) |-> <<d[i][1], d[i][2].repr>>]

\* Event.__repr__(self) == '<{}: {}>'.format(type(self).__name__, _kvrepr(self.__dict__)).
__repr__(cs, self) ==
    [kind |-> "repr", name |-> cs[self.cls].name, items |-> _kvrepr(self.dict)]

\* -------------------------------------------------- FieldDescriptor, BoundEvent
FieldDescriptor(field) == [type |-> "FieldDescriptor", field |-> field]

\* BoundEvent._make_field_descriptor(self, field).
_make_field_descriptor(field) == FieldDescriptor(field)

\* BoundEvent.__init__(self, event, obj): self.__dict__ afterwards.
BoundEvent(inherited, cs, event, obj) ==
    LET annotations == Annotations(inherited, cs, event)
    IN  IF annotations.raised
        THEN [kind |-> "error", exc |-> "AttributeError", msg |-> "__annotations__",
              cls |-> cs[event].name, names |-> <<>>]
        ELSE [kind |-> "bound",
              dict |-> DictUpdate(
                  <<<<"event", [type |-> "type", repr |-> cs[event].name]>>,
                    <<"obj", [type |-> "object", repr |-> obj]>>>>,
                  [i \in 1..Len(annotations.value) |->
                      <<annotations.value[i][1],
                        _make_field_descriptor(annotations.value[i][1])>>])]

\* The names under which a BoundEvent holds a FieldDescriptor.
DescriptorNames(bound) ==
    {bound.dict[i][1] : i \in {j \in 1..Len(bound.dict) :
                                  bound.dict[j][2].type = "FieldDescriptor"}}

\* FieldDescriptor.join(self, other): prints one line and returns None.
join(self, other) == [value |-> None, printed |-> <<"join", self.field, "with", other.field>>]

\* FieldDescriptor.__and__(self, other) == self.join(other).
__and__(self, other) == join(self, other)

\* ------------------------------------------------------------------ inputs
\* A class body: up to MaxDecl annotated names, each with a type.
ClassBodies ==
    UNION {{[i \in 1..Len(ns) |-> <<ns[i], ts[i]>>] : ts \in [1..Len(ns) -> Types]} :
              ns \in DistinctSeqs(FieldNames, MaxDecl)}

\* Keyword arguments: up to MaxKw distinct names in any order, each with a value.
Kwargs ==
    UNION {{[i \in 1..Len(ns) |-> <<ns[i], vs[i]>>] : vs \in [1..Len(ns) -> Values]} :
              ns \in DistinctSeqs(KwNames, MaxKw)}

\* Payloads on the wire: what a registered codec makes of such a mapping.
Payloads == {codec_dumps("json", kw) : kw \in Kwargs}

Topics == {"orders"}
Partitions == {0}
Streams == {"stream"}

\* The objects a model's state may hold as an instance.
IsRecord(v) == v.kind = "record"

NoCall == [op |-> "none", cls |-> EventId, arg |-> <<>>, self |-> None, src |-> None]

\* ------------------------------------------------------- type-level actions
Init ==
    /\ annotationsInherited \in BOOLEAN
    /\ classes = <<>>
    /\ call = NoCall
    /\ ret = None
    /\ stdout = <<>>

\* class <name>(<base>, serializer=...): <body>
DeclareClass(base, ann, serializer) ==
    /\ Len(classes) < MaxClasses
    /\ classes' = __init_subclass__(annotationsInherited, classes,
                                     ClassNames[Len(classes) + 1], base, ann, serializer)
    /\ call' = [NoCall EXCEPT !.op = "class", !.cls = Len(classes) + 1, !.arg = ann]
    /\ ret' = None
    /\ stdout' = <<>>
    /\ UNCHANGED annotationsInherited

\* BoundEvent(event, obj)
Bind(event, obj) ==
    /\ call' = [NoCall EXCEPT !.op = "bind", !.cls = event, !.arg = <<obj>>]
    /\ ret' = BoundEvent(annotationsInherited, classes, event, obj)
    /\ stdout' = <<>>
    /\ UNCHANGED <<annotationsInherited, classes>>

\* BoundEvent(A, obj).x & BoundEvent(B, obj).y
Join(A, x, B, y, obj) ==
    LET left == BoundEvent(annotationsInherited, classes, A, obj)
        right == BoundEvent(annotationsInherited, classes, B, obj)
    IN  /\ left.kind = "bound" /\ x \in DescriptorNames(left)
        /\ right.kind = "bound" /\ y \in DescriptorNames(right)
        /\ LET result == __and__(DictGet(left.dict, x), DictGet(right.dict, y))
           IN  /\ call' = [NoCall EXCEPT !.op = "and", !.cls = A, !.arg = <<A, x, B, y>>]
               /\ ret' = result.value
               /\ stdout' = result.printed
        /\ UNCHANGED <<annotationsInherited, classes>>

NextTypes ==
    \E base \in 0..Len(classes), ann \in ClassBodies, s \in Serializers :
        DeclareClass(base, ann, s)

SpecTypes == Init /\ [][NextTypes]_vars

\* ----------------------------------------------------- instance-level actions
\* cls(**fields)
Construct(c, fields) ==
    /\ call' = [NoCall EXCEPT !.op = "construct", !.cls = c, !.arg = fields]
    /\ ret' = __init__(classes, c, fields)
    /\ stdout' = <<>>
    /\ UNCHANGED <<annotationsInherited, classes>>

\* cls.loads(s) on a payload from the wire.
Loads(c, s) ==
    /\ call' = [NoCall EXCEPT !.op = "loads", !.cls = c, !.arg = s]
    /\ ret' = loads(classes, c, s, <<>>)
    /\ stdout' = <<>>
    /\ UNCHANGED <<annotationsInherited, classes>>

\* cls.loads(record.dumps()): the payload dumps has just returned.
LoadsReturned(c) ==
    /\ call.op = "dumps" /\ ret.kind = "payload"
    /\ call' = [NoCall EXCEPT !.op = "loads", !.cls = c, !.arg = ret, !.src = call.self]
    /\ ret' = loads(classes, c, ret, <<>>)
    /\ stdout' = <<>>
    /\ UNCHANGED <<annotationsInherited, classes>>

\* cls.from_message(key, topic, partition, message)
FromMessage(c, key, topic, partition, s) ==
    /\ call' = [NoCall EXCEPT !.op = "from_message", !.cls = c,
                              !.arg = <<key, topic, partition, [value |-> s]>>]
    /\ ret' = from_message(classes, c, key, topic, partition, [value |-> s])
    /\ stdout' = <<>>
    /\ UNCHANGED <<annotationsInherited, classes>>

\* record.dumps() on the instance the last call returned.
Dumps ==
    /\ IsRecord(ret)
    /\ call' = [NoCall EXCEPT !.op = "dumps", !.cls = ret.cls, !.self = ret]
    /\ ret' = dumps(classes, ret)
    /\ stdout' = <<>>
    /\ UNCHANGED <<annotationsInherited, classes>>

\* repr(record) on the instance the last call returned.
Repr ==
    /\ IsRecord(ret)
    /\ call' = [NoCall EXCEPT !.op = "repr", !.cls = ret.cls, !.self = ret]
    /\ ret' = __repr__(classes, ret)
    /\ stdout' = <<>>
    /\ UNCHANGED <<annotationsInherited, classes>>

NextRecords ==
    \/ \E c \in 1..Len(classes), fields \in Kwargs : Construct(c, fields)
    \/ \E c \in 1..Len(classes), s \in Payloads : Loads(c, s)
    \/ \E c \in 1..Len(classes) : LoadsReturned(c)
    \/ \E c \in 1..Len(classes), key \in Keys, topic \in Topics,
          partition \in Partitions, s \in Payloads :
           FromMessage(c, key, topic, partition, s)
    \/ Dumps
    \/ Repr
    \/ \E event \in 1..Len(classes), obj \in Streams : Bind(event, obj)
    \/ \E A \in 1..Len(classes), B \in 1..Len(classes), x \in KwNames,
          y \in KwNames, obj \in Streams : Join(A, x, B, y, obj)

\* A program's class statements, run in order.
RECURSIVE Declare(_, _, _)
Declare(inherited, cs, statements) ==
    IF statements = <<>> THEN cs
    ELSE Declare(inherited,
                 __init_subclass__(inherited, cs, Head(statements).name,
                                   Head(statements).base, Head(statements).ann,
                                   Head(statements).serializer),
                 Tail(statements))

\* The program whose instances are exercised: a class with one field and a
\* subclass that adds a field sorting before it, both with a registered codec,
\* and a class without fields that names no serializer.
Program ==
    <<[name |-> "Base", base |-> EventId, ann |-> <<<<"b", "int">>>>,
       serializer |-> "json"],
      [name |-> "Derived", base |-> 1, ann |-> <<<<"a", "str">>>>,
       serializer |-> "json"],
      [name |-> "Plain", base |-> EventId, ann |-> <<>>, serializer |-> "None"]>>

InitRecords ==
    /\ annotationsInherited \in BOOLEAN
    /\ classes = Declare(annotationsInherited, <<>>, Program)
    /\ call = NoCall
    /\ ret = None
    /\ stdout = <<>>

SpecRecords == InitRecords /\ [][NextRecords]_vars

\* ------------------------------------------------------------------ claims
Schema(c) == classes[c]._fieldset

HasCodec(c) == classes[c].serializer \in Codecs

\* The payload handed to the last loads or from_message call.
CallPayload == IF call.op = "from_message" THEN call.arg[4].value ELSE call.arg

\* The keyword arguments the last call passed besides the decoded payload.
CallKwargs ==
    IF call.op = "from_message"
    THEN <<<<"req", Request(call.arg[1], call.arg[2], call.arg[3], call.arg[4])>>>>
    ELSE <<>>

\* The last call ran the constructor: a direct construction, or a loads or
\* from_message whose payload decoded and repeated no keyword.
ConstructorRan ==
    \/ call.op = "construct"
    \/ /\ call.op \in {"loads", "from_message"}
       /\ HasCodec(call.cls)
       /\ CallPayload.codec = classes[call.cls].serializer
       /\ DictKeys(CallKwargs) \cap DictKeys(CallPayload.body) = {}

\* The names the constructor was given.
ConstructorNames ==
    IF call.op = "construct" THEN DictKeys(call.arg)
    ELSE DictKeys(CallKwargs) \cup DictKeys(CallPayload.body)

\* names lists exactly the set S in ascending order.
IsSortedListOf(names, S) ==
    /\ Len(names) = Cardinality(S)
    /\ {names[i] : i \in 1..Len(names)} = S
    /\ \A i \in 1..Len(names) : \A j \in 1..Len(names) :
           i < j => NameRank[names[i]] < NameRank[names[j]]

\* The Record instances the state holds.
Instances == {v \in {ret, call.self, call.src} : IsRecord(v)}

\* C1: from_message on a type with a registered codec and a payload whose
\* decoded key set equals the type's field names returns a Record of that type
\* holding exactly the decoded values, with the request (key, topic, partition,
\* message) attached.
C1_FromMessageYieldsRecord ==
    (/\ call.op = "from_message"
     /\ HasCodec(call.cls)
     /\ DictKeys(CallPayload.body) = Schema(call.cls))
    => /\ IsRecord(ret)
       /\ ret.cls = call.cls
       /\ \A k \in Schema(call.cls) : DictGet(ret.dict, k) = DictGet(CallPayload.body, k)
       /\ HasKey(ret.dict, "req")
       /\ DictGet(ret.dict, "req") = CallKwargs[1][2]

\* C2: for a payload whose decoded mapping misses fields or has extra fields,
\* from_message fails exactly as direct construction from the decoded mapping
\* does: the same error kind and the same sorted names.
C2_FromMessageFailsLikeConstruct ==
    (/\ call.op = "from_message"
     /\ HasCodec(call.cls)
     /\ DictKeys(CallPayload.body) # Schema(call.cls))
    => /\ ret.kind = "error"
       /\ ret = __init__(classes, call.cls, CallPayload.body)

\* C3: every Record instance that exists holds exactly the field names of its
\* type's schema, and a constructor call given any other set of names fails and
\* returns no instance.
C3_InstanceKeysAreSchema ==
    /\ \A r \in Instances : DictKeys(r.dict) = Schema(r.cls)
    /\ (ConstructorRan /\ ConstructorNames # Schema(call.cls)) => ret.kind = "error"
    /\ (ConstructorRan /\ ConstructorNames = Schema(call.cls)) => IsRecord(ret)

C3_Witness ==
    /\ call.op = "loads"
    /\ IsRecord(ret)
    /\ Len(ret.dict) = 2

\* C4 as stated: whenever the constructor is given names outside the schema,
\* construction fails with the unexpected-arguments error carrying exactly
\* those names sorted, whether or not schema fields are missing as well.
C4_ExtrasAlwaysReported ==
    (ConstructorRan /\ ConstructorNames \ Schema(call.cls) # {})
    => /\ ret.kind = "error"
       /\ ret.msg = "got unexpected arguments"
       /\ IsSortedListOf(ret.names, ConstructorNames \ Schema(call.cls))

\* C4 amended: when the constructor is given names outside the schema and no
\* schema field is missing, construction fails with the unexpected-arguments
\* error carrying exactly those names sorted; when schema fields are missing
\* too, the missing-fields check comes first and construction fails with the
\* missing-arguments error carrying exactly the missing names sorted.
C4_ExtrasReportedWhenNoneMissing ==
    (ConstructorRan /\ ConstructorNames \ Schema(call.cls) # {})
    => /\ ret.kind = "error"
       /\ ret.exc = "TypeError"
       /\ ret.cls = classes[call.cls].name
       /\ IF Schema(call.cls) \ ConstructorNames = {}
          THEN /\ ret.msg = "got unexpected arguments"
               /\ IsSortedListOf(ret.names, ConstructorNames \ Schema(call.cls))
          ELSE /\ ret.msg = "missing required arguments"
               /\ IsSortedListOf(ret.names, Schema(call.cls) \ ConstructorNames)

C4_Witness ==
    /\ call.op = "construct"
    /\ KeyList(call.arg) = <<"x", "a">>
    /\ Schema(call.cls) = {}
    /\ ret.kind = "error"
    /\ ret.msg = "got unexpected arguments"
    /\ ret.names = <<"a", "x">>

\* C5: a record of a type with a registered codec, serialized by dumps and
\* read back by loads of the same type, yields a record of that type whose
\* field mapping equals the original's.
C5_RoundTrip ==
    /\ (/\ call.op = "dumps"
        /\ HasCodec(call.cls)
        /\ \A i \in 1..Len(call.self.dict) : call.self.dict[i][2].type \in {"int", "str"})
       => ret.kind = "payload"
    /\ (/\ call.op = "loads"
        /\ IsRecord(call.src)
        /\ call.src.cls = call.cls)
       => /\ IsRecord(ret)
          /\ ret.cls = call.cls
          /\ AsMapping(ret.dict) = AsMapping(call.src.dict)

C5_Witness ==
    /\ call.op = "loads"
    /\ IsRecord(call.src)
    /\ call.src.cls = call.cls
    /\ IsRecord(ret)
    /\ Len(ret.dict) = 2
    /\ ret.dict # call.src.dict
    /\ ret.dict[1][2] # ret.dict[2][2]

\* The classes from the one directly below Event down to c.
RECURSIVE ChainBelowRoot(_)
ChainBelowRoot(c) ==
    IF c = EventId THEN <<>> ELSE Append(ChainBelowRoot(classes[c].base), c)

\* The names the classes of a chain declare, each at its first declaration.
RECURSIVE FirstDeclared(_)
FirstDeclared(chain) ==
    IF chain = <<>> THEN <<>>
    ELSE LET before == FirstDeclared(SubSeq(chain, 1, Len(chain) - 1))
             seen == {before[i] : i \in 1..Len(before)}
         IN  before \o SelectSeq(KeyList(classes[chain[Len(chain)]].ann),
                                 LAMBDA n : n \notin seen)

\* The type the most derived class of a chain that declares n gives it.
RECURSIVE LastDeclaredType(_, _)
LastDeclaredType(chain, n) ==
    IF HasKey(classes[chain[Len(chain)]].ann, n)
    THEN DictGet(classes[chain[Len(chain)]].ann, n)
    ELSE LastDeclaredType(SubSeq(chain, 1, Len(chain) - 1), n)

\* C6: the schema of every type is the merge of the declarations of its
\* ancestors below Event, most base first: a name stands where it was first
\* declared and has the type of its most derived declaration; a later class
\* statement changes no earlier class's schema.
C6_SchemaIsMergeBelowRoot ==
    \A c \in 1..Len(classes) :
        LET names == FirstDeclared(ChainBelowRoot(c))
        IN  classes[c]._fields =
                [i \in 1..Len(names) |->
                    <<names[i], LastDeclaredType(ChainBelowRoot(c), names[i])>>]

\* C7: no schema holds a name declared on Event itself, and a type directly
\* under Event that declares nothing has an empty schema: it is constructed
\* with no field values and only so.
C7_NoRootFieldsInSchema ==
    \A c \in 1..Len(classes) :
        /\ Schema(c) \cap {"req", "_fields", "_fieldset"} = {}
        /\ (classes[c].base = EventId /\ classes[c].ann = <<>>)
           => /\ classes[c]._fields = <<>>
              /\ \A fields \in Kwargs :
                     IsRecord(__init__(classes, c, fields)) <=> fields = <<>>

\* C8: A.x & B.y returns a join expression with left = (A, x) and right = (B, y).
C8_JoinIsDirected ==
    call.op = "and"
    => /\ ret.kind = "join"
       /\ ret.left = <<call.arg[1], call.arg[2]>>
       /\ ret.right = <<call.arg[3], call.arg[4]>>

\* C9: BoundEvent(T, obj) holds one FieldDescriptor per field of T's schema,
\* inherited fields included, each under its own field name.
C9_DescriptorPerSchemaField ==
    call.op = "bind"
    => /\ ret.kind = "bound"
       /\ DescriptorNames(ret) = Schema(call.cls)
       /\ \A n \in DescriptorNames(ret) : DictGet(ret.dict, n).field = n

\* C10: repr(record) is <TypeName: k1=v1, ...> with the fields in schema
\* declaration order, the order _asitems yields, whatever the order the values
\* were given in.
C10_ReprInSchemaOrder ==
    call.op = "repr"
    => /\ ret.name = classes[call.cls].name
       /\ ret.items = _kvrepr(_asitems(classes, call.self))

\* ------------------------------------------------------------ whole system
\* SpecTypes and SpecRecords are the two phases of a program: its class
\* statements, and the calls made once its classes are declared.
Next == NextTypes \/ NextRecords

Spec == Init /\ [][Next]_vars
====
